---- MODULE Spec2Model ----
(***************************************************************************)
(* Model of goexec: ExecTask.Execute runs one child process under a        *)
(* cancellable context, fans the child's stdout and stderr out to a list   *)
(* of writers, waits for the child, and reduces the outcome to an          *)
(* ExecResult and an error.                                                *)
(*                                                                         *)
(* Execute is one goroutine (pc) running concurrently with: the child      *)
(* process, the two copy goroutines os/exec starts for a non-file          *)
(* cmd.Stdout / cmd.Stderr, the goroutine that kills the child when the    *)
(* context is done, the timer of context.WithTimeout and the caller, who   *)
(* may cancel its context at any moment.                                   *)
(***************************************************************************)
EXTENDS Integers, Sequences, FiniteSets, TLC

\* ---- bounds --------------------------------------------------------------
MaxOut == 2        \* bytes the child writes in total, over both streams
PipeCap == 2       \* bytes an OS pipe holds before the child's write blocks
MaxStatus == 1     \* largest exit status the child exits with
MaxStrLen == 2     \* characters of Command and of an element of Args
MaxArgs == 2       \* elements of Args
MaxEntryLen == 3   \* characters of an environment entry
MaxOverrides == 2  \* entries of Env
MaxAmbient == 2    \* entries of os.Environ()
MaxOpts == 3       \* options passed to ExecuteShellScript

\* ---- values --------------------------------------------------------------
Nil == "nil"
Canceled == "Canceled"                  \* context.Canceled
DeadlineExceeded == "DeadlineExceeded"  \* context.DeadlineExceeded
StartError == "StartError"              \* any error of cmd.Start but the context's
CtxErrs == {Canceled, DeadlineExceeded}

Streams == {"stdout", "stderr"}
Kinds == {"file", "buf", "stdio", "sink"}
\* a writer is <<stream it belongs to, kind>>: <<"stdout","buf">> is stdoutBuff,
\* <<"stderr","file">> is et.ErrorFile, <<"stdout","stdio">> is os.Stdout, ...
WriterIds == Streams \X Kinds
NoWriter == <<"none", "none">>          \* no writer: no Write has failed

VARIABLES
    et,         \* the ExecTask (which destinations are set, Timeout, DisableStdioBuffer)
    pc,         \* position of Execute
    parentErr,  \* Err() of the context the caller passed
    ctxErr,     \* Err() of the context Execute uses (the caller's, or the WithTimeout child)
    timer,      \* TRUE while the timer of context.WithTimeout is armed
    callErr,    \* history: parentErr at the moment Execute was called
    events,     \* history: "cancel" / "deadline" / "timeout", in the order they fired
    child,      \* "none", "running", "exited", "signaled"
    status,     \* exit status of an exited child
    killed,     \* TRUE when the runner's kill ended the child
    watchErr,   \* error reported by the goroutine watching the context
    orphan,     \* TRUE while a process forked by the child holds the pipes' write ends
    pipe,       \* per stream: bytes written by the child and not yet read
    drain,      \* per stream: "idle", "copying", "eof", "failed"
    wrote,      \* history, per stream: every byte the child wrote
    sinks,      \* per writer: the bytes it received
    failedAt,   \* history, per stream: the writer whose Write failed, or NoWriter
    execErr,    \* kind of the error cmd.Wait returned
    errAtWait,  \* history: ctxErr when cmd.Wait returned
    result,     \* the ExecResult being returned
    err,        \* the error being returned
    path,       \* "none", "preflight", "startfail", "postwait"
    environ,    \* os.Environ(): the environment of the current process
    shFound,    \* TRUE when exec.LookPath("sh") succeeds
    cmd,        \* the exec.Cmd being built: Path, Args and Env
    childEnv,   \* the environment the created process receives
    bpc,        \* position of the command construction: "idle", "built", "started"
    script,     \* the call of ExecuteShellScript: what os.Stat finds, and the options
    hpc         \* position of ExecuteShellScript: "idle", "call", "notfound", "delegated"

vars == <<et, pc, parentErr, ctxErr, timer, callErr, events, child, status, killed,
          watchErr, orphan, pipe, drain, wrote, sinks, failedAt, execErr, errAtWait,
          result, err, path, environ, shFound, cmd, childEnv, bpc, script, hpc>>

ctxVars == <<parentErr, ctxErr, timer, events>>
procVars == <<child, status, killed, watchErr, orphan>>
ioVars == <<pipe, drain, wrote, sinks, failedAt>>
retVars == <<result, err, path, execErr, errAtWait>>
buildVars == <<environ, shFound, cmd, childEnv, bpc, script, hpc>>
execVars == <<pc, ctxVars, callErr, procVars, ioVars, retVars>>

\* ---- ExecResult ----------------------------------------------------------
\* ExecResult{} : the zero value
EmptyResult ==
    [Stdout |-> <<>>, Stderr |-> <<>>, ExitCode |-> 0,
     Timedout |-> FALSE, Cancelled |-> FALSE]

\* ctx.Err() == context.Canceled
IsCancelledAny(e) == e # Nil
IsCancelled(e) == e = Canceled

\* ctx.Err() == context.DeadlineExceeded
IsTimedout(e) == e = DeadlineExceeded

\* the result of the pre-flight return; e is what ctx.Err() returned for Cancelled
PreflightResultZero(e) == [EmptyResult EXCEPT !.Cancelled = IsCancelled(e)]
PreflightResult(e) ==
    [EmptyResult EXCEPT !.ExitCode = -1, !.Cancelled = IsCancelled(e)]

\* ---- output fan-out ------------------------------------------------------
FileSet(s) == IF s = "stdout" THEN et.OutputFile ELSE et.ErrorFile
SinkSet(s) == IF s = "stdout" THEN et.StdOutWriter ELSE et.StdErrWriter

Opt(cond, w) == IF cond THEN <<w>> ELSE <<>>

\* mutants of Writers: both streams buffered into stdoutBuff; buffer always on
WritersSharedBuf(s) ==
    Opt(FileSet(s), <<s, "file">>) \o Opt(~et.DisableStdioBuffer, <<"stdout", "buf">>)
    \o Opt(et.StreamStdio, <<s, "stdio">>) \o Opt(SinkSet(s), <<s, "sink">>)
WritersAlwaysBuf(s) ==
    Opt(FileSet(s), <<s, "file">>) \o <<<<s, "buf">>>>
    \o Opt(et.StreamStdio, <<s, "stdio">>) \o Opt(SinkSet(s), <<s, "sink">>)
\* stdoutWriters / stderrWriters, in the order they are appended
Writers(s) ==
    Opt(FileSet(s), <<s, "file">>) \o Opt(~et.DisableStdioBuffer, <<s, "buf">>)
    \o Opt(et.StreamStdio, <<s, "stdio">>) \o Opt(SinkSet(s), <<s, "sink">>)

Enabled(s) == {Writers(s)[i] : i \in 1..Len(Writers(s))}

\* bytes.Buffer.Write never returns an error; files and caller sinks can
CanFail(w) == w[2] # "buf"

\* io.MultiWriter(ws...).Write(chunk) where the writer at position f fails
\* (f = 0: none fails): the writers before f get the chunk, f and the ones
\* after it do not.
MultiWrite(cur, ws, chunk, f) ==
    [w \in WriterIds |->
        IF \E i \in 1..Len(ws) : ws[i] = w /\ (f = 0 \/ i < f)
        THEN cur[w] \o chunk ELSE cur[w]]

\* ---- exit code -----------------------------------------------------------
\* (*exec.ExitError).ExitCode(): the status of an exited process, -1 for a
\* process ended by a signal
ProcExitCode(c, st) == IF c = "exited" THEN st ELSE -1

\* the error of cmd.Wait: an *exec.ExitError when the process did not exit
\* with status 0, else the context watcher's error, else a copy error
WaitErr(c, st, werr, dr) ==
    IF ~(c = "exited" /\ st = 0) THEN "ExitError"
    ELSE IF werr # Nil THEN "ctx"
    ELSE IF \E s \in Streams : dr[s] = "failed" THEN "copy"
    ELSE Nil

ExitCodeOfZero(e, c, st) == 0
\* exitCode := 0; if execErr is an *exec.ExitError, exitCode = its ExitCode()
ExitCodeOf(e, c, st) == IF e = "ExitError" THEN ProcExitCode(c, st) ELSE 0

\* ---- strings -------------------------------------------------------------
\* a string is the sequence of its characters
RECURSIVE Join(_, _)
\* strings.Join(elems, sep)
Join(elems, sep) ==
    IF elems = <<>> THEN <<>>
    ELSE IF Len(elems) = 1 THEN elems[1]
    ELSE elems[1] \o sep \o Join(Tail(elems), sep)

RECURSIVE Split(_, _)
\* strings.Split(s, sep) for a separator of one character: the pieces between
\* the separators, empty pieces included
Split(s, sep) ==
    IF \A i \in 1..Len(s) : s[i] # sep THEN <<s>>
    ELSE LET i == CHOOSE k \in 1..Len(s) :
                      s[k] = sep /\ \A j \in 1..(k - 1) : s[j] # sep
         IN <<SubSeq(s, 1, i - 1)>> \o Split(SubSeq(s, i + 1, Len(s)), sep)

\* the set of the elements of a sequence
Range(q) == {q[i] : i \in 1..Len(q)}

\* the strings over the characters chars of length lo..hi
StringsOver(chars, lo, hi) == UNION {[1..n -> chars] : n \in lo..hi}

\* the lists of 0..hi elements of a set
ListsOf(set, hi) == UNION {[1..n -> set] : n \in 0..hi}

\* ---- the command, its environment and the script helper at rest ----------
\* ExecTask{} : the zero value of the fields the construction reads
ZeroTask ==
    [Command |-> <<>>, Args |-> <<>>, Shell |-> FALSE, Env |-> <<>>, Cwd |-> <<>>,
     OutputFile |-> Nil, ErrorFile |-> Nil]

ZeroCmd == [Path |-> <<>>, Args |-> <<>>, Env |-> <<>>]

BuildIdle ==
    /\ environ = <<>> /\ shFound = TRUE
    /\ cmd = ZeroCmd /\ childEnv = <<>> /\ bpc = "idle"
    /\ script = [stat |-> "ok", opts |-> <<>>] /\ hpc = "idle"

\* ---- initial state -------------------------------------------------------
\* the tasks executed: Timeout is 0 (none) or 1 (some positive duration); a
\* destination field is TRUE when it is set (non-nil); the two files are set
\* together, as WithOutputFiles sets them, and so are the two caller sinks
Tasks ==
    {t \in [Timeout : {0, 1}, DisableStdioBuffer : BOOLEAN, OutputFile : BOOLEAN,
            ErrorFile : BOOLEAN, StreamStdio : BOOLEAN, StdOutWriter : BOOLEAN,
            StdErrWriter : BOOLEAN] :
        t.OutputFile = t.ErrorFile /\ t.StdOutWriter = t.StdErrWriter}

Init ==
    /\ et \in Tasks
    /\ pc = "entry"
    /\ parentErr \in {Nil} \cup CtxErrs
    /\ ctxErr = parentErr
    /\ callErr = parentErr
    /\ events = IF parentErr = Canceled THEN <<"cancel">>
                ELSE IF parentErr = DeadlineExceeded THEN <<"deadline">> ELSE <<>>
    /\ timer = FALSE
    /\ child = "none" /\ status = 0 /\ killed = FALSE /\ watchErr = Nil
    /\ orphan = FALSE
    /\ pipe = [s \in Streams |-> <<>>]
    /\ drain = [s \in Streams |-> "idle"]
    /\ wrote = [s \in Streams |-> <<>>]
    /\ sinks = [w \in WriterIds |-> <<>>]
    /\ failedAt = [s \in Streams |-> NoWriter]
    /\ execErr = Nil /\ errAtWait = Nil
    /\ result = EmptyResult /\ err = Nil /\ path = "none"
    /\ BuildIdle

\* ---- the context ---------------------------------------------------------
\* context.WithTimeout(ctx, et.Timeout) when et.Timeout > 0: the child context
\* takes over an error the parent already has, else its timer is armed
WithTimeout ==
    /\ pc = "entry"
    /\ timer' = (et.Timeout > 0 /\ ctxErr = Nil)
    /\ pc' = "l94"
    /\ UNCHANGED <<buildVars, et, parentErr, ctxErr, callErr, events, procVars, ioVars, retVars>>

\* the first error of a context stays: a later cancel or deadline changes nothing
Propagate(cur, e) == IF cur = Nil THEN e ELSE cur

\* the caller cancels its context (e = Canceled) or the caller's own deadline
\* passes (e = DeadlineExceeded); a derived context is cancelled with the
\* same error and its timer stopped
CallerDone(e) ==
    /\ pc \notin {"entry", "done"}
    /\ parentErr = Nil
    /\ parentErr' = e
    /\ ctxErr' = Propagate(ctxErr, e)
    /\ timer' = FALSE
    /\ events' = Append(events, IF e = Canceled THEN "cancel" ELSE "deadline")
    /\ UNCHANGED <<buildVars, et, pc, callErr, procVars, ioVars, retVars>>

\* the timer of context.WithTimeout fires
TimerFire ==
    /\ pc # "done"
    /\ timer
    /\ ctxErr = Nil
    /\ ctxErr' = DeadlineExceeded
    /\ timer' = FALSE
    /\ events' = Append(events, "timeout")
    /\ UNCHANGED <<buildVars, et, pc, parentErr, callErr, procVars, ioVars, retVars>>

\* ---- pre-flight ----------------------------------------------------------
\* if ctx.Err() != nil {
Check94 ==
    /\ pc = "l94"
    /\ pc' = IF ctxErr # Nil THEN "l98" ELSE "start"
    /\ UNCHANGED <<buildVars, et, ctxVars, callErr, procVars, ioVars, retVars>>

\* ExecResult{ExitCode: -1, Cancelled: ctx.Err() == context.Canceled}
Read98 ==
    /\ pc = "l98"
    /\ result' = PreflightResult(ctxErr)
    /\ pc' = "l99"
    /\ UNCHANGED <<buildVars, et, ctxVars, callErr, procVars, ioVars, err, path, execErr, errAtWait>>

\* return ..., ctx.Err()  (and the deferred cancel)
Read99 ==
    /\ pc = "l99"
    /\ err' = ctxErr
    /\ path' = "preflight"
    /\ pc' = "done"
    /\ timer' = FALSE
    /\ UNCHANGED <<buildVars, et, parentErr, ctxErr, events, callErr, procVars, ioVars,
                   result, execErr, errAtWait>>

\* ---- cmd.Start -----------------------------------------------------------
\* cmd.Start() returns ctx.Err() without creating a process when the context
\* of exec.CommandContext is already done
StartCtxDone ==
    /\ pc = "start"
    /\ ctxErr # Nil
    /\ result' = EmptyResult
    /\ err' = ctxErr
    /\ path' = "startfail"
    /\ pc' = "done"
    /\ timer' = FALSE
    /\ UNCHANGED <<buildVars, et, parentErr, ctxErr, events, callErr, procVars, ioVars,
                   execErr, errAtWait>>

\* process creation fails (executable not found, permission denied, ...)
StartFail ==
    /\ pc = "start"
    /\ ctxErr = Nil
    /\ result' = EmptyResult
    /\ err' = StartError
    /\ path' = "startfail"
    /\ pc' = "done"
    /\ timer' = FALSE
    /\ UNCHANGED <<buildVars, et, parentErr, ctxErr, events, callErr, procVars, ioVars,
                   execErr, errAtWait>>

\* process creation succeeds: the child runs and both copy goroutines start
StartOk ==
    /\ pc = "start"
    /\ ctxErr = Nil
    /\ child' = "running"
    /\ drain' = [s \in Streams |-> "copying"]
    /\ pc' = "wait"
    /\ UNCHANGED <<buildVars, et, ctxVars, callErr, status, killed, watchErr, orphan, pipe,
                   wrote, sinks, failedAt, retVars>>

\* ---- the child -----------------------------------------------------------
Written == Len(wrote["stdout"]) + Len(wrote["stderr"])

\* the child writes one byte to stream s; it blocks while the pipe is full and
\* is ended by SIGPIPE when the reading end was closed
ChildWrite(s) ==
    /\ child = "running"
    /\ Written < MaxOut
    /\ IF drain[s] = "failed"
       THEN /\ child' = "signaled"
            /\ UNCHANGED <<pipe, wrote>>
       ELSE /\ Len(pipe[s]) < PipeCap
            /\ pipe' = [pipe EXCEPT ![s] = Append(@, Written + 1)]
            /\ wrote' = [wrote EXCEPT ![s] = Append(@, Written + 1)]
            /\ child' = child
    /\ UNCHANGED <<buildVars, et, pc, ctxVars, callErr, status, killed, watchErr, orphan,
                   drain, sinks, failedAt, retVars>>

\* the child exits on its own with status st
ChildExit(st) ==
    /\ child = "running"
    /\ child' = "exited"
    /\ status' = st
    /\ UNCHANGED <<buildVars, et, pc, ctxVars, callErr, killed, watchErr, orphan, ioVars, retVars>>

\* the child is ended by a signal that is not the runner's
ChildCrash ==
    /\ child = "running"
    /\ child' = "signaled"
    /\ UNCHANGED <<buildVars, et, pc, ctxVars, callErr, status, killed, watchErr, orphan,
                   ioVars, retVars>>

\* the child forks a process that inherits its stdout and stderr
ChildFork ==
    /\ child = "running"
    /\ ~orphan
    /\ orphan' = TRUE
    /\ UNCHANGED <<buildVars, et, pc, ctxVars, callErr, child, status, killed, watchErr,
                   ioVars, retVars>>

\* the forked process ends (or closes its stdout and stderr)
OrphanExit ==
    /\ orphan
    /\ orphan' = FALSE
    /\ UNCHANGED <<buildVars, et, pc, ctxVars, callErr, child, status, killed, watchErr,
                   ioVars, retVars>>

\* the context of exec.CommandContext is done: the process is killed; the
\* kill of a process that ended and is not yet reaped succeeds too
Kill ==
    /\ pc = "wait"
    /\ ctxErr # Nil
    /\ watchErr = Nil
    /\ watchErr' = ctxErr
    /\ IF child = "running"
       THEN child' = "signaled" /\ killed' = TRUE
       ELSE UNCHANGED <<child, killed>>
    /\ UNCHANGED <<buildVars, et, pc, ctxVars, callErr, status, orphan, ioVars, retVars>>

\* ---- the copy goroutines -------------------------------------------------
\* io.Copy(cmd.Stdout, pipe): read a chunk of k bytes and write it to the
\* MultiWriter; when the writer at position f fails, the copy stops and the
\* reading end of the pipe is closed
Drain(s) ==
    /\ pc = "wait"
    /\ drain[s] = "copying"
    /\ pipe[s] # <<>>
    /\ \E k \in 1..Len(pipe[s]) : \E f \in 0..Len(Writers(s)) :
        /\ f > 0 => CanFail(Writers(s)[f])
        /\ sinks' = MultiWrite(sinks, Writers(s), SubSeq(pipe[s], 1, k), f)
        /\ pipe' = [pipe EXCEPT ![s] =
                        IF f = 0 THEN SubSeq(@, k + 1, Len(@)) ELSE <<>>]
        /\ drain' = [drain EXCEPT ![s] = IF f = 0 THEN @ ELSE "failed"]
        /\ failedAt' = [failedAt EXCEPT ![s] = IF f = 0 THEN @ ELSE Writers(s)[f]]
    /\ UNCHANGED <<buildVars, et, pc, ctxVars, callErr, procVars, wrote, retVars>>

\* the pipe is empty and every process holding its write end has ended: the
\* copy reads EOF
DrainEOF(s) ==
    /\ pc = "wait"
    /\ drain[s] = "copying"
    /\ pipe[s] = <<>>
    /\ child \in {"exited", "signaled"}
    /\ ~orphan
    /\ drain' = [drain EXCEPT ![s] = "eof"]
    /\ UNCHANGED <<buildVars, et, pc, ctxVars, callErr, procVars, pipe, wrote, sinks,
                   failedAt, retVars>>

\* ---- cmd.Wait and the result ---------------------------------------------
\* mutant of Wait: returns when the copies are over, the process not reaped
WaitWithoutReap ==
    /\ pc = "wait"
    /\ \A s \in Streams : drain[s] \in {"eof", "failed"} \/ pipe[s] = <<>>
    /\ execErr' = WaitErr(child, status, watchErr, drain)
    /\ errAtWait' = ctxErr
    /\ result' = [EmptyResult EXCEPT
                    !.Stdout = sinks[<<"stdout", "buf">>],
                    !.Stderr = sinks[<<"stderr", "buf">>],
                    !.ExitCode = ExitCodeOf(execErr', child, status)]
    /\ pc' = "l218"
    /\ UNCHANGED <<buildVars, et, ctxVars, callErr, procVars, ioVars, err, path>>

\* cmd.Wait() returns once the child has ended and both copies are over;
\* exitCode is derived and Stdout, Stderr, ExitCode of the result are read
Wait ==
    /\ pc = "wait"
    /\ child \in {"exited", "signaled"}
    /\ \A s \in Streams : drain[s] \in {"eof", "failed"}
    /\ execErr' = WaitErr(child, status, watchErr, drain)
    /\ errAtWait' = ctxErr
    /\ result' = [EmptyResult EXCEPT
                    !.Stdout = sinks[<<"stdout", "buf">>],
                    !.Stderr = sinks[<<"stderr", "buf">>],
                    !.ExitCode = ExitCodeOf(execErr', child, status)]
    /\ pc' = "l218"
    /\ UNCHANGED <<buildVars, et, ctxVars, callErr, procVars, ioVars, err, path>>

\* Timedout: ctx.Err() == context.DeadlineExceeded
Read218 ==
    /\ pc = "l218"
    /\ result' = [result EXCEPT !.Timedout = IsTimedout(ctxErr)]
    /\ pc' = "l219"
    /\ UNCHANGED <<buildVars, et, ctxVars, callErr, procVars, ioVars, err, path, execErr, errAtWait>>

\* Cancelled: ctx.Err() == context.Canceled
Read219 ==
    /\ pc = "l219"
    /\ result' = [result EXCEPT !.Cancelled = IsCancelled(ctxErr)]
    /\ pc' = "l220"
    /\ UNCHANGED <<buildVars, et, ctxVars, callErr, procVars, ioVars, err, path, execErr, errAtWait>>

\* return ..., ctx.Err()  (and the deferred cancel)
Read220 ==
    /\ pc = "l220"
    /\ err' = ctxErr
    /\ path' = "postwait"
    /\ pc' = "done"
    /\ timer' = FALSE
    /\ UNCHANGED <<buildVars, et, parentErr, ctxErr, events, callErr, procVars, ioVars,
                   result, execErr, errAtWait>>

Next ==
    \/ WithTimeout
    \/ \E e \in CtxErrs : CallerDone(e)
    \/ TimerFire
    \/ Check94
    \/ Read98
    \/ Read99
    \/ StartCtxDone
    \/ StartFail
    \/ StartOk
    \/ \E s \in Streams : ChildWrite(s)
    \/ \E st \in 0..MaxStatus : ChildExit(st)
    \/ ChildCrash
    \/ ChildFork
    \/ OrphanExit
    \/ Kill
    \/ \E s \in Streams : Drain(s)
    \/ \E s \in Streams : DrainEOF(s)
    \/ Wait
    \/ Read218
    \/ Read219
    \/ Read220

Spec == Init /\ [][Next]_vars

\* ---- scheduling ----------------------------------------------------------
\* one task with a timeout and a caller sink, run under a live context
LiveInit ==
    /\ Init
    /\ parentErr = Nil
    /\ et = [Timeout |-> 1, DisableStdioBuffer |-> FALSE, OutputFile |-> FALSE,
             ErrorFile |-> FALSE, StreamStdio |-> FALSE, StdOutWriter |-> TRUE,
             StdErrWriter |-> TRUE]

\* the runtime timer fires, the goroutines of os/exec and Execute itself keep
\* running; nothing makes the child, or a process it forked, ever end
Fairness ==
    /\ WF_vars(TimerFire)
    /\ WF_vars(Kill)
    /\ \A s \in Streams : WF_vars(Drain(s)) /\ WF_vars(DrainEOF(s))
    /\ WF_vars(Wait)
    /\ WF_vars(Read218) /\ WF_vars(Read219) /\ WF_vars(Read220)

FairSpec == LiveInit /\ [][Next]_vars /\ Fairness

\* ---- the command line ----------------------------------------------------
Sh == <<"s", "h">>                                                \* "sh"
UsrBinSh == <<"/", "u", "s", "r", "/", "b", "i", "n", "/", "s", "h">>  \* "/usr/bin/sh"
DashC == <<"-", "c">>                                             \* "-c"
Space == <<" ">>                                                  \* " "

\* command = "sh"; if exec.LookPath(command) fails, command = "/usr/bin/sh"
ShellPath(found) == IF found THEN Sh ELSE UsrBinSh

\* mutant of Script: the script is the joined arguments alone
ScriptArgsOnly(t) ==
    IF Len(t.Args) = 0
    THEN Join(Split(t.Command, " "), Space)
    ELSE Join(t.Args, Space)
\* the script handed to the shell: Command split at the spaces and joined
\* again when there are no Args, else "Command Args..."
Script(t) ==
    IF Len(t.Args) = 0
    THEN Join(Split(t.Command, " "), Space)
    ELSE t.Command \o Space \o Join(t.Args, Space)

\* mutant of CommandLine: a Command with spaces is split into command and arguments
CommandLineSplit(t, found) ==
    IF t.Shell THEN <<ShellPath(found), DashC, Script(t)>>
    ELSE IF \E i \in 1..Len(t.Command) : t.Command[i] = " "
         THEN Split(t.Command, " ")
         ELSE <<t.Command>> \o t.Args
\* <<command>> \o commandArgs: the name and the arguments handed to
\* exec.CommandContext
CommandLine(t, found) ==
    IF t.Shell THEN <<ShellPath(found), DashC, Script(t)>>
    ELSE <<t.Command>> \o t.Args

\* ---- the environment -----------------------------------------------------
\* key := strings.Split(env, "=")[0]
Key(env) == Split(env, "=")[1]

OverrideKeys(env) == {Key(e) : e \in Range(env)}

\* mutant of CmdEnv: the whole ambient environment is appended
CmdEnvUnfiltered(env, ambient) ==
    IF Len(env) > 0 THEN env \o ambient ELSE <<>>
\* cmd.Env: empty (nil) without overrides, else the overrides followed by the
\* ambient entries whose key is not overridden
CmdEnv(env, ambient) ==
    IF Len(env) > 0
    THEN LET Keep(e) == Key(e) \notin OverrideKeys(env)
         IN env \o SelectSeq(ambient, Keep)
    ELSE <<>>

HasEq(e) == \E i \in 1..Len(e) : e[i] = "="

\* position i of list q is not followed by a KEY=VALUE entry of the same key
LastOfKey(q, i) ==
    ~\E j \in (i + 1)..Len(q) : HasEq(q[j]) /\ Key(q[j]) = Key(q[i])

\* process creation drops an entry KEY=VALUE that is followed by another
\* entry with the same key: of the entries of one key the last is used
DedupEnv(env) ==
    LET kept == {i \in 1..Len(env) :
                    ~HasEq(env[i]) \/
                    ~\E j \in (i + 1)..Len(env) :
                        HasEq(env[j]) /\ Key(env[j]) = Key(env[i])}
        Nth(k) == CHOOSE i \in kept : Cardinality({j \in kept : j <= i}) = k
    IN [k \in 1..Cardinality(kept) |-> env[Nth(k)]]

\* the environment of the process: cmd.Env, or that of the current process
\* when cmd.Env is nil
ChildEnviron(env, ambient) == DedupEnv(IF env = <<>> THEN ambient ELSE env)

\* ---- the construction of the command --------------------------------------
\* exec.CommandContext(ctx, command, commandArgs...) and cmd.Env
Build ==
    /\ bpc = "idle"
    /\ cmd' = [Path |-> CommandLine(et, shFound)[1],
               Args |-> CommandLine(et, shFound),
               Env |-> CmdEnv(et.Env, environ)]
    /\ bpc' = "built"
    /\ UNCHANGED <<et, execVars, environ, shFound, childEnv, script, hpc>>

\* cmd.Start() hands the process its environment
ProcessEnviron ==
    /\ bpc = "built"
    /\ childEnv' = ChildEnviron(cmd.Env, environ)
    /\ bpc' = "started"
    /\ UNCHANGED <<et, execVars, environ, shFound, cmd, script, hpc>>

\* Execute not yet called, under a live context
ExecIdle ==
    /\ pc = "entry"
    /\ parentErr = Nil /\ ctxErr = Nil /\ callErr = Nil
    /\ events = <<>> /\ timer = FALSE
    /\ child = "none" /\ status = 0 /\ killed = FALSE /\ watchErr = Nil
    /\ orphan = FALSE
    /\ pipe = [s \in Streams |-> <<>>]
    /\ drain = [s \in Streams |-> "idle"]
    /\ wrote = [s \in Streams |-> <<>>]
    /\ sinks = [w \in WriterIds |-> <<>>]
    /\ failedAt = [s \in Streams |-> NoWriter]
    /\ execErr = Nil /\ errAtWait = Nil
    /\ result = EmptyResult /\ err = Nil /\ path = "none"

\* Command and the elements of Args: strings of letters and spaces
Words == StringsOver({"a", " "}, 0, MaxStrLen)
\* environment entries: KEY=VALUE, or a bare KEY, with a non-empty key
EnvEntries == {e \in StringsOver({"a", "="}, 1, MaxEntryLen) : e[1] # "="}

\* os.Environ() lists a key once: the runtime clears the entries a later
\* entry of the same key shadows
Ambients ==
    {q \in ListsOf(EnvEntries, MaxAmbient) : \A i \in 1..Len(q) : LastOfKey(q, i)}

CommandTasks ==
    {[ZeroTask EXCEPT !.Command = c, !.Args = a, !.Shell = sh] :
        c \in Words, a \in ListsOf(Words, MaxArgs), sh \in BOOLEAN}
EnvTasks ==
    {[ZeroTask EXCEPT !.Command = <<"a">>, !.Env = e] :
        e \in ListsOf(EnvEntries, MaxOverrides)}

InitBuild ==
    /\ ExecIdle
    /\ cmd = ZeroCmd /\ childEnv = <<>> /\ bpc = "idle"
    /\ script = [stat |-> "ok", opts |-> <<>>] /\ hpc = "idle"
    /\ \/ et \in CommandTasks /\ shFound \in BOOLEAN /\ environ = <<>>
       \/ et \in EnvTasks /\ shFound = TRUE
          /\ environ \in Ambients

NextBuild ==
    \/ Build
    \/ ProcessEnviron

SpecBuild == InitBuild /\ [][NextBuild]_vars

\* ---- ExecuteShellScript ---------------------------------------------------
ScriptPath == <<"p">>                   \* the scriptPath argument
ScriptNotFound == "ScriptNotFound"      \* fmt.Errorf("script not found: %s", scriptPath)

\* the options: WithEnv(env), WithShell(shell), WithCwd(cwd), WithArgs(args),
\* WithOutputFiles(stdout, stderr)
WithEnv(v) == [kind |-> "env", val |-> v]
WithShell(v) == [kind |-> "shell", val |-> v]
WithCwd(v) == [kind |-> "cwd", val |-> v]
WithArgs(v) == [kind |-> "args", val |-> v]
WithOutputFiles(o, e) == [kind |-> "files", val |-> <<o, e>>]

\* mutant of ApplyOpt: WithArgs replaces the arguments
ApplyOptArgsReplace(t, o) ==
    CASE o.kind = "env" -> [t EXCEPT !.Env = o.val]
      [] o.kind = "shell" ->
            IF o.val # <<>> THEN [t EXCEPT !.Command = o.val, !.Shell = TRUE] ELSE t
      [] o.kind = "cwd" -> [t EXCEPT !.Cwd = o.val]
      [] o.kind = "args" -> [t EXCEPT !.Args = o.val]
      [] o.kind = "files" -> [t EXCEPT !.OutputFile = o.val[1], !.ErrorFile = o.val[2]]
\* opt(&execTask): what each option does to the task
ApplyOpt(t, o) ==
    CASE o.kind = "env" -> [t EXCEPT !.Env = o.val]
      [] o.kind = "shell" ->
            IF o.val # <<>> THEN [t EXCEPT !.Command = o.val, !.Shell = TRUE] ELSE t
      [] o.kind = "cwd" -> [t EXCEPT !.Cwd = o.val]
      [] o.kind = "args" -> [t EXCEPT !.Args = @ \o o.val]
      [] o.kind = "files" -> [t EXCEPT !.OutputFile = o.val[1], !.ErrorFile = o.val[2]]

RECURSIVE ApplyOpts(_, _)
\* for _, opt := range opts { opt(&execTask) }
ApplyOpts(t, opts) ==
    IF opts = <<>> THEN t ELSE ApplyOpts(ApplyOpt(t, Head(opts)), Tail(opts))

\* ExecTask{Command: "sh", Args: []string{scriptPath}, Shell: true}
DefaultTask == [ZeroTask EXCEPT !.Command = Sh, !.Args = <<ScriptPath>>, !.Shell = TRUE]

IsNotExistNever(st) == FALSE
\* os.IsNotExist(err) for the error of os.Stat(scriptPath)
IsNotExist(st) == st = "notexist"

\* the script does not exist: return ExecResult{} and the error
ScriptMissing ==
    /\ hpc = "call"
    /\ IsNotExist(script.stat)
    /\ result' = EmptyResult
    /\ err' = ScriptNotFound
    /\ hpc' = "notfound"
    /\ UNCHANGED <<et, pc, ctxVars, callErr, procVars, ioVars, path, execErr,
                   errAtWait, environ, shFound, cmd, childEnv, bpc, script>>

\* the default task with the options applied in order is handed to Execute
ScriptDelegate ==
    /\ hpc = "call"
    /\ ~IsNotExist(script.stat)
    /\ et' = ApplyOpts(DefaultTask, script.opts)
    /\ hpc' = "delegated"
    /\ UNCHANGED <<execVars, environ, shFound, cmd, childEnv, bpc, script>>

\* the options a call may pass
Options ==
    {WithEnv(v) : v \in {<<>>, <<<<"a", "=">>>>}}
    \cup {WithShell(v) : v \in {<<>>, <<"b">>, <<"z">>}}
    \cup {WithCwd(v) : v \in {<<>>, <<"d">>}}
    \cup {WithArgs(v) : v \in {<<>>, <<<<"x">>>>, <<<<"y">>, <<"z">>>>}}
    \cup {WithOutputFiles(Nil, Nil), WithOutputFiles("f1", "f2")}

\* os.Stat finds the script ("ok"), reports that it does not exist
\* ("notexist") or fails otherwise ("error")
InitScript ==
    /\ ExecIdle
    /\ et = ZeroTask
    /\ environ = <<>> /\ shFound = TRUE
    /\ cmd = ZeroCmd /\ childEnv = <<>> /\ bpc = "idle"
    /\ script \in [stat : {"ok", "notexist", "error"}, opts : ListsOf(Options, MaxOpts)]
    /\ hpc = "call"

NextScript ==
    \/ ScriptMissing
    \/ ScriptDelegate

SpecScript == InitScript /\ [][NextScript]_vars

\* ---- properties -----------------------------------------------------------
Returned == pc = "done"
HasEvent(e) == \E i \in 1..Len(events) : events[i] = e
NoWriteFailed == \A s \in Streams : failedAt[s] = NoWriter

\* C1 (as claimed): when the process was started and the task's timeout
\* elapsed before cmd.Wait returned, the child was killed and the result has
\* Timedout = TRUE and ExitCode = -1; and every returned result with
\* Timedout = TRUE has ExitCode = -1.
C1_TimeoutExitCodeClaim ==
    Returned =>
        /\ (path = "postwait" /\ HasEvent("timeout") /\ errAtWait # Nil)
              => (killed /\ result.Timedout /\ result.ExitCode = -1)
        /\ result.Timedout => result.ExitCode = -1

\* C2 (as claimed): with a task timeout set, the event that fires first
\* during the call decides the flag of the returned result: cancellation
\* first gives Cancelled and not Timedout, the timeout first gives Timedout
\* and not Cancelled.
C2_FirstEventDecidesClaim ==
    (Returned /\ et.Timeout > 0 /\ callErr = Nil /\ events # <<>>) =>
        /\ events[1] = "cancel" => (result.Cancelled /\ ~result.Timedout)
        /\ events[1] = "timeout" => (result.Timedout /\ ~result.Cancelled)

\* C3: no result Execute returns, on any of its three return paths, has both
\* Timedout and Cancelled set.
C3_FlagsExclusive ==
    Returned => ~(result.Timedout /\ result.Cancelled)

\* C3 witness: a post-wait result returned after the timeout fired and the
\* caller cancelled as well
C3_Witness ==
    /\ Returned /\ path = "postwait"
    /\ events = <<"timeout", "cancel">>
    /\ result.Timedout

\* C4: when the caller's context is already cancelled at the call, no process
\* is ever created and Execute returns on the pre-flight path with
\* Cancelled = TRUE, ExitCode = -1 and the error context.Canceled.
C4_AlreadyCancelled ==
    callErr = Canceled =>
        /\ child = "none"
        /\ Returned =>
            /\ path = "preflight"
            /\ result.Cancelled
            /\ result.ExitCode = -1
            /\ err = Canceled

\* C4 witness: Execute has returned for a task with a timeout whose caller
\* context was cancelled before the call
C4_Witness ==
    /\ Returned /\ callErr = Canceled /\ et.Timeout > 0
    /\ path = "preflight" /\ result.Cancelled

\* C5 (as claimed): the pre-flight result has ExitCode = -1, no process was
\* created, and its flag names the cause: Timedout when the context's
\* deadline has passed, Cancelled when it was cancelled.
C5_PreflightFlagClaim ==
    (Returned /\ path = "preflight") =>
        /\ child = "none"
        /\ result.ExitCode = -1
        /\ err = DeadlineExceeded => result.Timedout
        /\ err = Canceled => result.Cancelled

\* C6 (as claimed): when Execute returns after the wait, every enabled
\* destination of a stream other than the one whose write failed has
\* received every byte the child wrote to that stream.
C6_FailureIsolatedClaim ==
    (Returned /\ path = "postwait") =>
        \A s \in Streams : \A w \in Enabled(s) :
            w # failedAt[s] => sinks[w] = wrote[s]

\* C7: when no destination failed and the child exited on its own, at the
\* return every enabled destination of a stream holds exactly the bytes the
\* child wrote to that stream, in order, and with buffering enabled
\* result.Stdout and result.Stderr are the child's complete stdout and stderr.
C7_CompleteOutput ==
    (Returned /\ path = "postwait" /\ child = "exited" /\ NoWriteFailed) =>
        /\ \A s \in Streams : \A w \in Enabled(s) : sinks[w] = wrote[s]
        /\ ~et.DisableStdioBuffer =>
              /\ result.Stdout = wrote["stdout"]
              /\ result.Stderr = wrote["stderr"]

\* C7 witness: a buffered run with file and caller sink set in which the
\* child wrote to both streams and exited, and the result carries its stdout
C7_Witness ==
    /\ Returned /\ path = "postwait" /\ child = "exited" /\ NoWriteFailed
    /\ ~et.DisableStdioBuffer /\ et.OutputFile /\ et.StdOutWriter
    /\ wrote["stdout"] # <<>> /\ wrote["stderr"] # <<>>
    /\ result.Stdout = wrote["stdout"]

C9_OwnExit ==
    (Returned /\ path = "postwait" /\ child = "exited" /\ events = <<>>) =>
        /\ result.ExitCode = status
        /\ ~result.Timedout
        /\ ~result.Cancelled

\* C9 witness: the child exited with a non-zero status and Execute returned it
C9_Witness ==
    /\ Returned /\ path = "postwait" /\ child = "exited" /\ events = <<>>
    /\ status = 1 /\ result.ExitCode = 1 /\ err = Nil

\* C10 (as claimed): when process creation fails, the result has
\* ExitCode = -1 and the error is non-nil.
C10_StartFailureClaim ==
    (Returned /\ path = "startfail" /\ err = StartError) =>
        /\ result.ExitCode = -1
        /\ err # Nil

\* C14: whenever Execute has returned and a process had been created, the
\* process has ended and cmd.Wait has reaped it (the return is the one after
\* the wait); and a call returns once: after the return, the result, the
\* error and the return path never change again.
C14_WaitedBeforeReturn ==
    /\ [](Returned /\ child # "none" =>
             /\ child \in {"exited", "signaled"}
             /\ path = "postwait"
             /\ \A s \in Streams : drain[s] \in {"eof", "failed"})
    /\ [][Returned => /\ pc' = "done"
                      /\ result' = result
                      /\ err' = err
                      /\ path' = path]_vars

\* C14 witness: Execute returned after the runner killed a running child
C14_Witness ==
    /\ Returned /\ path = "postwait"
    /\ killed /\ child = "signaled"

\* C18 (as claimed): in every pair returned after the process was started,
\* the error is non-nil exactly when a flag is set, it is DeadlineExceeded
\* exactly when Timedout is set and Canceled exactly when Cancelled is set.
C18_ErrorMatchesFlagsClaim ==
    (Returned /\ path = "postwait") =>
        /\ (err # Nil) <=> (result.Timedout \/ result.Cancelled)
        /\ (err = DeadlineExceeded) <=> result.Timedout
        /\ (err = Canceled) <=> result.Cancelled

\* C19 (as claimed): after the process was started, ExitCode = 0 is returned
\* only for a child that exited on its own with status 0; when the child was
\* ended by a kill or a signal, or cmd.Wait returned an error, ExitCode is
\* not 0.
C19_ZeroOnlyOnSuccessClaim ==
    (Returned /\ path = "postwait") =>
        /\ result.ExitCode = 0 => (child = "exited" /\ status = 0)
        /\ (killed \/ child = "signaled" \/ execErr # Nil) => result.ExitCode # 0

\* C17 (as claimed): once the process of a task with Timeout > 0 is
\* started, Execute eventually returns.
C17_TimeoutReturnsClaim ==
    (pc = "wait" /\ et.Timeout > 0) ~> Returned

C15_ScriptNotFound ==
    script.stat = "notexist" =>
        /\ hpc # "delegated"
        /\ et = ZeroTask
        /\ pc = "entry" /\ child = "none"
        /\ hpc = "notfound" => (err = ScriptNotFound /\ result = EmptyResult)

\* C15 witness: a call with options for a missing script has returned
C15_Witness ==
    /\ hpc = "notfound" /\ script.stat = "notexist"
    /\ Len(script.opts) > 0
    /\ err = ScriptNotFound

\* the options of one kind, in the order passed
OptsOfKind(k) ==
    LET Is(o) == o.kind = k IN SelectSeq(script.opts, Is)
\* the WithShell options with a non-empty shell
ShellsGiven ==
    LET Is(o) == o.kind = "shell" /\ o.val # <<>> IN SelectSeq(script.opts, Is)
\* the value of the last option of q, or def when q is empty
LastVal(q, def) == IF q = <<>> THEN def ELSE q[Len(q)].val
RECURSIVE ConcatVals(_)
ConcatVals(q) == IF q = <<>> THEN <<>> ELSE Head(q).val \o ConcatVals(Tail(q))

\* C16: the task handed to Execute has Shell = TRUE, Args = the script path
\* followed by the arguments of all WithArgs options in order, Command = the
\* shell of the last WithShell with a non-empty shell (else "sh"), and Env,
\* Cwd and the output files of the last WithEnv, WithCwd and WithOutputFiles.
C16_OptionsApplied ==
    hpc = "delegated" =>
        /\ et.Shell
        /\ et.Args = <<ScriptPath>> \o ConcatVals(OptsOfKind("args"))
        /\ et.Command = LastVal(ShellsGiven, Sh)
        /\ et.Env = LastVal(OptsOfKind("env"), <<>>)
        /\ et.Cwd = LastVal(OptsOfKind("cwd"), <<>>)
        /\ <<et.OutputFile, et.ErrorFile>> = LastVal(OptsOfKind("files"), <<Nil, Nil>>)

\* C16 witness: two WithArgs around a WithShell, for an existing script
C16_Witness ==
    /\ hpc = "delegated" /\ script.stat = "ok"
    /\ script.opts = <<WithArgs(<<<<"x">>>>), WithShell(<<"b">>),
                       WithArgs(<<<<"y">>, <<"z">>>>)>>
    /\ et.Args = <<ScriptPath, <<"x">>, <<"y">>, <<"z">>>>
    /\ et.Command = <<"b">>

====
